---- MODULE Spec2Model ----
(***************************************************************************)
(* A model of the broadcast node of src/main.rs: one sequential process    *)
(* that reads one JSON line at a time from stdin, decodes it, dispatches   *)
(* on the message type, mutates its Node state and writes reply and        *)
(* gossip envelopes to stdout.                                             *)
(*                                                                         *)
(* A JSON object is modelled as a function from the names of the fields    *)
(* that are present to their values, so that decoding (serde defaults,     *)
(* required fields) and encoding (skipped fields) are computed and not     *)
(* assumed.                                                                *)
(***************************************************************************)
EXTENDS Integers, Sequences, FiniteSets, TLC

----------------------------------------------------------------------------
(* Bounds of the model *)

\* The loop stops taking input once the node's counter has passed this value.
MaxMsgId == 3

\* Largest value carried by a broadcast line (values are 0..MaxValue).
MaxValue == 1

\* How many broadcasts the clients of a cluster send.
MaxBroadcasts == 1

----------------------------------------------------------------------------
(* The inputs the environment may write to the node's stdin *)

Clients == {"c1"}
NodeNames == {"n1", "n2"}

\* The senders of inbound lines: a client and a peer.
Srcs == {"c1", "n2"}

\* msg_id and in_reply_to values of inbound lines: zero, and a request id
\* that differs from every value the node's own counter takes.
ReqIds == {0, 41}

Values == 0..MaxValue

\* The neighbor lists a topology map may give: empty, one peer, a list that
\* holds the node itself and the client, a list with a repeated peer.
NeighborLists ==
    { <<>>, <<"n2">>, <<"n1", "n2", "c1">>, <<"n2", "n2">> }

\* JSON object with no field.
EmptyObject == [x \in {} |-> 0]

\* Topology maps: the empty map, maps with an entry for n1 only, a map with
\* an entry for n2 only, and a map with an entry for both.
Topologies ==
    { EmptyObject, "n2" :> <<"n1">>, ("n1" :> <<"n2">>) @@ ("n2" :> <<"n1">>) }
    \cup { "n1" :> l : l \in NeighborLists }

InitPayloads ==
    { [node_id |-> "n1", node_ids |-> <<"n1", "n2">>],
      [node_id |-> "n2", node_ids |-> <<"n1", "n2">>],
      [node_id |-> "n1", node_ids |-> <<"n1">>] }

\* Body objects by type, as they stand on the wire.
InitBodies ==
    { [type |-> "init", msg_id |-> m, node_id |-> p.node_id, node_ids |-> p.node_ids] :
        m \in ReqIds, p \in InitPayloads }
TopologyBodies ==
    { [type |-> "topology", msg_id |-> m, topology |-> t] : m \in ReqIds, t \in Topologies }
BroadcastBodies ==
    { [type |-> "broadcast", msg_id |-> m, in_reply_to |-> r, message |-> v] :
        m \in ReqIds, r \in ReqIds, v \in Values }
    \cup { [type |-> "broadcast", msg_id |-> m] : m \in ReqIds }
    \cup { [type |-> "broadcast", message |-> v] : v \in Values }
ReadBodies ==
    { [type |-> "read", msg_id |-> m] : m \in ReqIds }
BroadcastOkBodies ==
    { [type |-> "broadcast_ok", msg_id |-> m, in_reply_to |-> r] : m \in ReqIds, r \in ReqIds }
UnknownBodies ==
    { [type |-> "echo", msg_id |-> m] : m \in ReqIds }

\* A well-formed line: an envelope object with src, dest and body.
LinesOf(bodies) == { [src |-> s, dest |-> "n1", body |-> b] : s \in Srcs, b \in bodies }

InitLines == LinesOf(InitBodies)
TopologyLines == LinesOf(TopologyBodies)
BroadcastLines == LinesOf(BroadcastBodies)
ReadLines == LinesOf(ReadBodies)
BroadcastOkLines == LinesOf(BroadcastOkBodies)
UnknownLines == LinesOf(UnknownBodies)

\* Lines serde_json cannot decode into a Message: the empty line of an end of
\* input, an envelope with no body, a body with no type, a body with no msg_id.
BadLines ==
    { EmptyObject,
      [src |-> "c1", dest |-> "n1"],
      [src |-> "c1", dest |-> "n1", body |-> [msg_id |-> 41]],
      [src |-> "c1", dest |-> "n1", body |-> [type |-> "read"]],
      [src |-> "c1", dest |-> "n1", body |-> [type |-> "broadcast", message |-> 1]] }

\* Every line the environment may write.
Lines ==
    BadLines \cup InitLines \cup TopologyLines \cup BroadcastLines \cup ReadLines
    \cup BroadcastOkLines \cup UnknownLines

\* The value of the line buffer before anything was read.
NoLine == [unread |-> TRUE]

----------------------------------------------------------------------------
(* Data types *)

Range(seq) == { seq[i] : i \in 1..Len(seq) }

\* Option<Vec<u128>>: None is the empty sequence, Some(v) the one-element
\* sequence holding v.
None == <<>>
Some(v) == <<v>>
IsSome(o) == Len(o) = 1
Unwrap(o) == o[1]

\* Node::new(): every field at its Default.
NewNode ==
    [id |-> "", msg_id |-> 0, node_ids |-> <<>>, neighbors |-> <<>>, messages |-> {}]

\* MessageBody::default().
DefaultBody ==
    [msg_type |-> "", msg_id |-> 0, in_reply_to |-> 0, node_id |-> "",
     node_ids |-> <<>>, topology |-> EmptyObject, message |-> 0, messages |-> None]

DefaultMessage == [src |-> "", dest |-> "", body |-> DefaultBody]

----------------------------------------------------------------------------
(* Decoding and encoding *)

Field(obj, name, default) == IF name \in DOMAIN obj THEN obj[name] ELSE default

\* Deserialize for MessageBody: type and msg_id are required, every other
\* field carries #[serde(default)].
BodyDecodes(b) == {"type", "msg_id"} \subseteq DOMAIN b

DecodeBody(b) ==
    [msg_type    |-> b["type"],
     msg_id      |-> b["msg_id"],
     in_reply_to |-> Field(b, "in_reply_to", 0),
     node_id     |-> Field(b, "node_id", ""),
     node_ids    |-> Field(b, "node_ids", <<>>),
     topology    |-> Field(b, "topology", EmptyObject),
     message     |-> Field(b, "message", 0),
     messages    |-> IF "messages" \in DOMAIN b THEN Some(b["messages"]) ELSE None]

\* Deserialize for Message: src, dest and body are required.
Decodes(line) ==
    /\ {"src", "dest", "body"} \subseteq DOMAIN line
    /\ BodyDecodes(line["body"])

Decode(line) ==
    [src |-> line["src"], dest |-> line["dest"], body |-> DecodeBody(line["body"])]

is_zero(num) == num = 0

\* Serialize for MessageBody: node_id, node_ids and topology are skipped,
\* message is skipped when zero, messages is skipped when None.
EncodeBody(body) ==
    [type |-> body.msg_type, msg_id |-> body.msg_id, in_reply_to |-> body.in_reply_to]
    @@ (IF is_zero(body.message) THEN EmptyObject ELSE [message |-> body.message])
    @@ (IF IsSome(body.messages) THEN [messages |-> Unwrap(body.messages)] ELSE EmptyObject)

Encode(out) == [src |-> out.src, dest |-> out.dest, body |-> EncodeBody(out.body)]

----------------------------------------------------------------------------
(* State *)

VARIABLES
    line,           \* the line read by the latest loop iteration
    node,           \* the Node of main
    status,         \* "running", "exited" (main returned Err) or "panicked"
    msg,            \* the Message decoded by the latest loop iteration
    sent,           \* the lines the latest loop iteration wrote to stdout, in order
    prev,           \* the Node as it was when the latest loop iteration began
    written,        \* how many lines stdout held when the latest loop iteration began
    carried,        \* the message values of all broadcast envelopes handled so far
    carriedBefore   \* carried, as it was when the latest loop iteration began

\* The single node fed by the environment.
svars == <<line, node, status, msg, sent, prev, written, carried, carriedBefore>>

\* A cluster of processes that run the same program, joined by a network.
VARIABLES
    topo,           \* the topology map the cluster is given
    cnodes,         \* the Node of each process
    cstatus,        \* "running", "exited" or "panicked", for each process
    ready,          \* the processes that have handled their init and their topology
    net,            \* the envelopes in flight to a process
    requested,      \* the values clients have broadcast
    nrequests,      \* how many broadcasts clients have sent
    flooded,        \* the <<from, to, value>> of every gossip envelope sent
    twice           \* the <<from, to, value>> sent more than once

cvars == <<topo, cnodes, cstatus, ready, net, requested, nrequests, flooded, twice>>

vars == <<svars, cvars>>

----------------------------------------------------------------------------
(* Node::send, Node::reply, Node::broadcast.  They work on a pair          *)
(* [node, sent]: the Node and the lines written to stdout so far in this   *)
(* loop iteration.                                                         *)

\* Mutant of send: the counter is stamped but not advanced.
sendStale(st, dest, body) ==
    [node |-> st.node,
     sent |-> Append(st.sent,
                Encode([src |-> st.node.id, dest |-> dest,
                        body |-> [body EXCEPT !.msg_id = st.node.msg_id]]))]

send(st, dest, body) ==
    LET id == st.node.msg_id + 1
        out == [src |-> st.node.id, dest |-> dest, body |-> [body EXCEPT !.msg_id = id]]
    IN  [node |-> [st.node EXCEPT !.msg_id = id],
         sent |-> Append(st.sent, Encode(out))]

\* Mutant of reply: the reply is addressed to the request's dest.
replyToDest(st, request, rep) ==
    send(st, request.dest, [rep EXCEPT !.in_reply_to = request.body.msg_id])

\* Mutant of reply: in_reply_to is left at its default.
replyUncorrelated(st, request, rep) ==
    send(st, request.src, rep)

reply(st, request, rep) ==
    send(st, request.src, [rep EXCEPT !.in_reply_to = request.body.msg_id])

\* Mutant of SkipNeighbor: every neighbor is skipped, so nothing is flooded.
SkipEveryNeighbor(self, n, m) == TRUE

\* Mutant of SkipNeighbor: only the node itself is skipped.
SkipSelfOnly(self, n, m) == n = self.id

\* The test of line 54: never send to ourselves or to the sender.
SkipNeighbor(self, n, m) == n = self.id \/ n = m.src

RECURSIVE BroadcastFrom(_, _, _, _)
BroadcastFrom(st, m, nodes, i) ==
    IF i > Len(nodes) THEN st
    ELSE BroadcastFrom(IF SkipNeighbor(st.node, nodes[i], m) THEN st
                       ELSE send(st, nodes[i], m.body),
                       m, nodes, i + 1)

broadcast(st, m) == BroadcastFrom(st, m, st.node.neighbors, 1)

----------------------------------------------------------------------------
(* The arms of the match in main.  Each gives the pair after the arm, the  *)
(* reply body prepared, and how the arm ends: "reply" (falls through to    *)
(* the reply test), "continue" or "panic".                                 *)

Arm(st, rep, end) == [st |-> st, reply |-> rep, end |-> end]

\* Mutant of OnInit: an init that arrives when the id is set is ignored.
OnInitOnce(st, m) ==
    Arm(IF st.node.id = ""
        THEN [st EXCEPT !.node.id = m.body.node_id, !.node.node_ids = m.body.node_ids]
        ELSE st,
        [DefaultBody EXCEPT !.msg_type = "init_ok"], "reply")

OnInit(st, m) ==
    Arm([st EXCEPT !.node.id = m.body.node_id, !.node.node_ids = m.body.node_ids],
        [DefaultBody EXCEPT !.msg_type = "init_ok"], "reply")

\* Mutant of OnBroadcast: the value is flooded whether or not it is new.
OnBroadcastAlwaysFlood(st, m) ==
    Arm(broadcast([st EXCEPT !.node.messages = @ \cup {m.body.message}], m),
        [DefaultBody EXCEPT !.msg_type = "broadcast_ok"], "reply")

\* Mutant of OnBroadcast: the value is flooded but not stored.
OnBroadcastNoStore(st, m) ==
    Arm(IF m.body.message \notin st.node.messages THEN broadcast(st, m) ELSE st,
        [DefaultBody EXCEPT !.msg_type = "broadcast_ok"], "reply")

\* Mutant of OnBroadcast: a request is acknowledged before the flood.
OnBroadcastReplyFirst(st, m) ==
    LET inserted == m.body.message \notin st.node.messages
        stored == [st EXCEPT !.node.messages = @ \cup {m.body.message}]
        acked == IF m.body.msg_id > 0
                 THEN reply(stored, m, [DefaultBody EXCEPT !.msg_type = "broadcast_ok"])
                 ELSE stored
    IN  Arm(IF inserted THEN broadcast(acked, m) ELSE acked, DefaultBody, "continue")

OnBroadcast(st, m) ==
    LET inserted == m.body.message \notin st.node.messages
        stored == [st EXCEPT !.node.messages = @ \cup {m.body.message}]
    IN  Arm(IF inserted THEN broadcast(stored, m) ELSE stored,
            [DefaultBody EXCEPT !.msg_type = "broadcast_ok"], "reply")

\* The orders in which a HashSet may be iterated into a Vec.
Orders(S) ==
    { f \in [1..Cardinality(S) -> S] : \A i, j \in 1..Cardinality(S) : f[i] = f[j] => i = j }

OnRead(st, m, vec) ==
    Arm(st, [DefaultBody EXCEPT !.msg_type = "read_ok", !.messages = Some(vec)], "reply")

\* Mutant of OnTopology: the entry is added to the neighbors held.
OnTopologyAppend(st, m) ==
    IF st.node.id \in DOMAIN m.body.topology
    THEN Arm([st EXCEPT !.node.neighbors = @ \o m.body.topology[st.node.id]],
             [DefaultBody EXCEPT !.msg_type = "topology_ok"], "reply")
    ELSE Arm(st, [DefaultBody EXCEPT !.msg_type = "topology_ok"], "panic")

\* Indexing the map with a key it does not hold panics.
OnTopology(st, m) ==
    IF st.node.id \in DOMAIN m.body.topology
    THEN Arm([st EXCEPT !.node.neighbors = m.body.topology[st.node.id]],
             [DefaultBody EXCEPT !.msg_type = "topology_ok"], "reply")
    ELSE Arm(st, [DefaultBody EXCEPT !.msg_type = "topology_ok"], "panic")

\* Mutant of OnBroadcastOk: the acknowledgment falls through to the reply test.
OnBroadcastOkAnswered(st, m) ==
    Arm(st, [DefaultBody EXCEPT !.msg_type = "broadcast_ok"], "reply")

OnBroadcastOk(st, m) == Arm(st, DefaultBody, "continue")

\* Mutant of OnUnknown: the unknown type falls through to the reply test.
OnUnknownAnswered(st, m) ==
    Arm(st, [DefaultBody EXCEPT !.msg_type = "error"], "reply")

OnUnknown(st, m) == Arm(st, DefaultBody, "continue")

\* Mutant of NeedsReply: every handled message is answered.
NeedsReplyAlways(body) == TRUE

\* The test of line 150.
NeedsReply(body) == body.msg_id > 0

\* The end of the loop body, after the match.
Finish(arm, m) ==
    IF arm.end = "reply" /\ NeedsReply(m.body) THEN reply(arm.st, m, arm.reply) ELSE arm.st

----------------------------------------------------------------------------
(* The loop of main, one action per kind of line read *)

\* The cluster, while the single node runs: not started.
ClusterIdle ==
    /\ topo = EmptyObject
    /\ cnodes = EmptyObject
    /\ cstatus = EmptyObject
    /\ ready = {}
    /\ net = {}
    /\ requested = {}
    /\ nrequests = 0
    /\ flooded = {}
    /\ twice = {}

NodeStarts ==
    /\ line = NoLine
    /\ node = NewNode
    /\ status = "running"
    /\ msg = DefaultMessage
    /\ sent = <<>>
    /\ prev = NewNode
    /\ written = 0
    /\ carried = {}
    /\ carriedBefore = {}

Init == NodeStarts /\ ClusterIdle

\* The loop reads while the process is alive; the model stops feeding it
\* lines once the counter has passed MaxMsgId.
Reading == status = "running" /\ node.msg_id <= MaxMsgId

Begin == [node |-> node, sent |-> <<>>]

\* One whole iteration that decoded m and ran arm.
Iterate(m, arm) ==
    LET st == Finish(arm, m)
    IN  /\ node' = st.node
        /\ sent' = st.sent
        /\ status' = IF arm.end = "panic" THEN "panicked" ELSE "running"
        /\ msg' = m
        /\ prev' = node
        /\ written' = written + Len(sent)
        /\ carriedBefore' = carried
        /\ carried' = IF m.body.msg_type = "broadcast"
                      THEN carried \cup {m.body.message} ELSE carried
        /\ UNCHANGED cvars

\* Mutant of DecodeError: the line is logged and skipped.
DecodeErrorSkipped(n) == "running"

\* The ? of line 110: the error is returned from main and the process ends.
DecodeError(n) == "exited"

\* serde_json::from_str fails on the line read.
ReadBadLine ==
    /\ Reading
    /\ \E l \in Lines :
        /\ ~Decodes(l)
        /\ line' = l
        /\ status' = DecodeError(node)
        /\ msg' = DefaultMessage
        /\ sent' = <<>>
        /\ prev' = node
        /\ written' = written + Len(sent)
        /\ carriedBefore' = carried
        /\ UNCHANGED <<node, carried>>
        /\ UNCHANGED cvars

HandleInit ==
    /\ Reading
    /\ \E l \in InitLines :
        /\ Decodes(l)
        /\ line' = l
        /\ LET m == Decode(l) IN Iterate(m, OnInit(Begin, m))

HandleBroadcast ==
    /\ Reading
    /\ \E l \in BroadcastLines :
        /\ Decodes(l)
        /\ line' = l
        /\ LET m == Decode(l) IN Iterate(m, OnBroadcast(Begin, m))

HandleRead ==
    /\ Reading
    /\ \E l \in ReadLines :
        /\ Decodes(l)
        /\ line' = l
        /\ \E vec \in Orders(node.messages) :
            LET m == Decode(l) IN Iterate(m, OnRead(Begin, m, vec))

HandleTopology ==
    /\ Reading
    /\ \E l \in TopologyLines :
        /\ Decodes(l)
        /\ line' = l
        /\ LET m == Decode(l) IN Iterate(m, OnTopology(Begin, m))

HandleBroadcastOk ==
    /\ Reading
    /\ \E l \in BroadcastOkLines :
        /\ Decodes(l)
        /\ line' = l
        /\ LET m == Decode(l) IN Iterate(m, OnBroadcastOk(Begin, m))

HandleUnknown ==
    /\ Reading
    /\ \E l \in UnknownLines :
        /\ Decodes(l)
        /\ line' = l
        /\ LET m == Decode(l) IN Iterate(m, OnUnknown(Begin, m))

Next ==
    \/ ReadBadLine
    \/ HandleInit
    \/ HandleBroadcast
    \/ HandleRead
    \/ HandleTopology
    \/ HandleBroadcastOk
    \/ HandleUnknown

Spec == Init /\ [][Next]_vars

----------------------------------------------------------------------------
(* A cluster: three processes that each run main, a client that sets them  *)
(* up and broadcasts, and a network that delivers every envelope written   *)
(* to stdout to the stdin of its dest, in any order.                       *)

Procs == {"n1", "n2", "n3"}

\* The topology maps a cluster may be given, all connected: a line, a full
\* graph, and a line whose first entry names its neighbor twice.
ClusterTopologies ==
    { ("n1" :> <<"n2">>) @@ ("n2" :> <<"n1", "n3">>) @@ ("n3" :> <<"n2">>),
      ("n1" :> <<"n2", "n3">>) @@ ("n2" :> <<"n1", "n3">>) @@ ("n3" :> <<"n1", "n2">>),
      ("n1" :> <<"n2", "n2">>) @@ ("n2" :> <<"n1", "n3">>) @@ ("n3" :> <<"n2">>) }

\* The match of main on the message type.
Dispatch(st, m, vec) ==
    CASE m.body.msg_type = "init" -> OnInit(st, m)
      [] m.body.msg_type = "broadcast" -> OnBroadcast(st, m)
      [] m.body.msg_type = "read" -> OnRead(st, m, vec)
      [] m.body.msg_type = "topology" -> OnTopology(st, m)
      [] m.body.msg_type = "broadcast_ok" -> OnBroadcastOk(st, m)
      [] OTHER -> OnUnknown(st, m)

\* What one iteration of the loop of main leaves behind once its arm and the
\* reply test have run: the Node, the lines written, and whether it goes on.
Outcome(arm, st) ==
    [node |-> st.node, sent |-> st.sent,
     status |-> IF arm.end = "panic" THEN "panicked" ELSE "running"]

\* The reply test that follows the arm.  Each stage is computed once and
\* handed on as a value, as the statements of main run one after another.
Settle(arm, m) == CHOOSE r \in { Outcome(arm, st) : st \in { Finish(arm, m) } } : TRUE

\* The match on msg_type, on a decoded message, by a process whose Node is n.
Handle(n, m, vec) ==
    CHOOSE r \in { Settle(arm, m) :
                     arm \in { Dispatch([node |-> n, sent |-> <<>>], m, vec) } } : TRUE

\* One iteration of the loop of main by a process whose Node is n, on the
\* line l: a line that does not decode ends main, any other is handled.
Process(n, l, vec) ==
    IF ~Decodes(l)
    THEN [node |-> n, sent |-> <<>>, status |-> DecodeError(n)]
    ELSE CHOOSE r \in { Handle(n, m, vec) : m \in { Decode(l) } } : TRUE

\* The iteration orders to choose from when l is handled by the Node n.
OrdersFor(n, l) ==
    IF Decodes(l) /\ l["body"]["type"] = "read" THEN Orders(n.messages) ELSE { <<>> }

ClusterInit ==
    /\ NodeStarts
    /\ topo \in ClusterTopologies
    /\ cnodes = [p \in Procs |-> NewNode]
    /\ cstatus = [p \in Procs |-> "running"]
    /\ ready = {}
    /\ net = {}
    /\ requested = {}
    /\ nrequests = 0
    /\ flooded = {}
    /\ twice = {}

\* What a written line tells of the gossip it carries.
EdgeOf(e) == <<e.src, e.dest, Field(e.body, "message", 0)>>
GossipIn(out) == { i \in 1..Len(out) : out[i].body["type"] = "broadcast" }

\* The <<from, to, value>> that the lines out send again: sent before, or
\* sent by two of these lines.
SentAgain(out, before) ==
    { EdgeOf(out[i]) : i \in
        { j \in GossipIn(out) :
            \/ EdgeOf(out[j]) \in before
            \/ \E k \in GossipIn(out) : k # j /\ EdgeOf(out[k]) = EdgeOf(out[j]) } }

\* Process p reads the line l and runs one iteration; what it writes for a
\* process goes into the network, what it writes for a client leaves it.
Run(p, l) ==
    \E vec \in OrdersFor(cnodes[p], l) :
        \E r \in { Process(cnodes[p], l, vec) } :
            /\ cnodes' = [cnodes EXCEPT ![p] = r.node]
            /\ cstatus' = [cstatus EXCEPT ![p] = r.status]
            /\ net' = (net \ {l}) \cup { e \in Range(r.sent) : e.dest \in Procs }
            /\ flooded' = flooded \cup { EdgeOf(r.sent[i]) : i \in GossipIn(r.sent) }
            /\ twice' = twice \cup SentAgain(r.sent, flooded)

\* The client sends p its init.
SetupInit(p) ==
    /\ cstatus[p] = "running"
    /\ cnodes[p].id = ""
    /\ Run(p, [src |-> "c1", dest |-> p,
               body |-> [type |-> "init", msg_id |-> 1, node_id |-> p,
                         node_ids |-> <<"n1", "n2", "n3">>]])
    /\ UNCHANGED <<topo, ready, requested, nrequests>>
    /\ UNCHANGED svars

\* The client sends p the topology map, once p has its id.
SetupTopology(p) ==
    /\ cstatus[p] = "running"
    /\ cnodes[p].id # ""
    /\ p \notin ready
    /\ Run(p, [src |-> "c1", dest |-> p,
               body |-> [type |-> "topology", msg_id |-> 2, topology |-> topo]])
    /\ ready' = ready \cup {p}
    /\ UNCHANGED <<topo, requested, nrequests>>
    /\ UNCHANGED svars

\* Once every process is set up, the client sends a broadcast of v to p; it
\* sends one broadcast at a time, when the network has drained.
ClientBroadcast(p, v) ==
    /\ ready = Procs
    /\ nrequests < MaxBroadcasts
    /\ net = {}
    /\ net' = net \cup { [src |-> "c1", dest |-> p,
                          body |-> [type |-> "broadcast", msg_id |-> 41 + nrequests,
                                    message |-> v]] }
    /\ requested' = requested \cup {v}
    /\ nrequests' = nrequests + 1
    /\ UNCHANGED <<topo, cnodes, cstatus, ready, flooded, twice>>
    /\ UNCHANGED svars

\* The network hands an envelope in flight to its dest, which handles it.
Deliver ==
    \E e \in net :
        /\ cstatus[e.dest] = "running"
        /\ Run(e.dest, e)
        /\ UNCHANGED <<topo, ready, requested, nrequests>>
        /\ UNCHANGED svars

ClusterNext ==
    \/ \E p \in Procs : SetupInit(p)
    \/ \E p \in Procs : SetupTopology(p)
    \/ \E p \in Procs, v \in Values : ClientBroadcast(p, v)
    \/ Deliver

\* Every process loops on read_line and the network loses nothing: an
\* envelope in flight is delivered in the end.
ClusterSpec == ClusterInit /\ [][ClusterNext]_vars /\ WF_vars(Deliver)

----------------------------------------------------------------------------
(* Vocabulary of the properties *)

\* A message was decoded and dispatched by the latest loop iteration.
Handled == msg.body.msg_type # ""

InboundType == msg.body.msg_type
InboundId == msg.body.msg_id

\* A flooded envelope is one of type broadcast; a reply is one of an _ok type.
IsGossip(e) == e.body["type"] = "broadcast"
OkTypes == {"init_ok", "topology_ok", "broadcast_ok", "read_ok"}
IsReply(e) == e.body["type"] \in OkTypes

\* The value a line carries: an omitted message field reads back as 0.
ValueOf(e) == Field(e.body, "message", 0)

GossipSent == { i \in 1..Len(sent) : IsGossip(sent[i]) }
ToSender == { i \in 1..Len(sent) : sent[i].dest = msg.src }

\* The reply type the handler table gives for each request type.
ReplyTypeOf(t) ==
    CASE t = "init" -> "init_ok"
      [] t = "topology" -> "topology_ok"
      [] t = "broadcast" -> "broadcast_ok"
      [] t = "read" -> "read_ok"
      [] OTHER -> ""

Answered == {"init", "topology", "broadcast", "read"}

\* Some neighbor in force before the iteration is neither the node nor the sender.
HasFloodTarget == \E n \in Range(prev.neighbors) : n # prev.id /\ n # msg.src

----------------------------------------------------------------------------
(* C1: a read with msg_id > 0 is answered by one read_ok whose messages,   *)
(* as a set, are exactly the values carried by the broadcast envelopes     *)
(* handled so far; the stored set equals that set of values and never      *)
(* loses a member.                                                         *)
ReadReturnsCarried ==
    /\ node.messages = carried
    /\ prev.messages \subseteq node.messages
    /\ (InboundType = "read" /\ InboundId > 0) =>
          /\ Len(sent) = 1
          /\ sent[1].body["type"] = "read_ok"
          /\ "messages" \in DOMAIN sent[1].body
          /\ Range(sent[1].body["messages"]) = carried

\* A read answered after both values, one of them 0, were broadcast.
ReadReturnsCarriedWitness ==
    /\ InboundType = "read" /\ InboundId > 0
    /\ carried = {0, 1}
    /\ Len(sent) = 1
    /\ Len(sent[1].body["messages"]) = 2

(* C2: gossip carrying v is emitted only while the first broadcast of v    *)
(* is handled; a later broadcast of v emits no gossip, leaves the stored   *)
(* set unchanged and writes at most the broadcast_ok reply; the stored set *)
(* grows by one on the first occurrence and by nothing afterwards.         *)
BroadcastIdempotent ==
    /\ \A i \in GossipSent :
          /\ InboundType = "broadcast"
          /\ ValueOf(sent[i]) = msg.body.message
          /\ msg.body.message \notin carriedBefore
    /\ (InboundType = "broadcast" /\ msg.body.message \in carriedBefore) =>
          /\ GossipSent = {}
          /\ node.messages = prev.messages
          /\ Len(sent) = (IF InboundId > 0 THEN 1 ELSE 0)
          /\ \A i \in 1..Len(sent) : sent[i].body["type"] = "broadcast_ok"
    /\ (InboundType = "broadcast" /\ msg.body.message \notin carriedBefore) =>
          Cardinality(node.messages) = Cardinality(prev.messages) + 1
    /\ InboundType # "broadcast" => node.messages = prev.messages

\* A repeated broadcast, handled while a flood target exists.
BroadcastIdempotentWitness ==
    /\ InboundType = "broadcast" /\ InboundId > 0
    /\ msg.body.message \in carriedBefore
    /\ HasFloodTarget
    /\ Len(sent) = 1

(* C3: no flooded envelope is addressed to the node itself or to the       *)
(* sender of the envelope that caused the flood.                           *)
NoSelfNoEcho ==
    \A i \in GossipSent :
        /\ sent[i].dest # node.id
        /\ sent[i].dest # sent[i].src
        /\ sent[i].dest # msg.src

\* A flood from a neighbor list that holds the node itself and the sender.
NoSelfNoEchoWitness ==
    /\ GossipSent # {}
    /\ prev.id \in Range(prev.neighbors)
    /\ msg.src \in Range(prev.neighbors)

(* C4 as stated: every inbound envelope with msg_id = M > 0, of any type,  *)
(* causes exactly one outbound envelope with in_reply_to = M, addressed to *)
(* the inbound src.  It is stated of the iterations the node survives, so  *)
(* that the panic of the topology arm is not what refutes it.              *)
ReplyCorrelationAnyType ==
    (Handled /\ InboundId > 0 /\ status = "running") =>
        /\ Cardinality({ i \in 1..Len(sent) : sent[i].body["in_reply_to"] = InboundId }) = 1
        /\ \A i \in 1..Len(sent) :
              sent[i].body["in_reply_to"] = InboundId => sent[i].dest = msg.src

(* C4 amended: an inbound init, broadcast or read, or a topology that      *)
(* holds the node's id, with msg_id = M > 0 causes exactly one envelope    *)
(* addressed to the inbound src: a reply with in_reply_to = M, written     *)
(* last.  A broadcast_ok or an unrecognized type causes no envelope, and a *)
(* topology that lacks the node's id stops the node with none written.     *)
ReplyCorrelation ==
    (Handled /\ InboundId > 0) =>
        IF InboundType \in Answered /\ status = "running"
        THEN /\ ToSender = {Len(sent)}
             /\ IsReply(sent[Len(sent)])
             /\ sent[Len(sent)].body["in_reply_to"] = InboundId
             /\ \A i \in 1..Len(sent) : IsReply(sent[i]) => i = Len(sent)
        ELSE sent = <<>>

\* A request answered after a flood whose envelopes copy in_reply_to = M.
ReplyCorrelationWitness ==
    /\ InboundType = "broadcast" /\ InboundId > 0
    /\ msg.body.in_reply_to = InboundId
    /\ Len(sent) >= 2
    /\ sent[1].body["in_reply_to"] = InboundId

(* C5: an inbound envelope with msg_id = 0 causes no reply: nothing is     *)
(* addressed to its sender and nothing of an _ok type is written; whatever *)
(* is written is gossip to a neighbor.                                     *)
FireAndForget ==
    (Handled /\ InboundId = 0) =>
        \A i \in 1..Len(sent) :
            /\ ~IsReply(sent[i])
            /\ sent[i].dest # msg.src
            /\ IsGossip(sent[i])
            /\ sent[i].dest \in Range(prev.neighbors)

\* A broadcast with msg_id = 0 that flooded.
FireAndForgetWitness ==
    /\ InboundType = "broadcast" /\ InboundId = 0
    /\ sent # <<>>

(* C6 as stated: every flooded envelope carries msg_id = 0.                *)
GossipCarriesNoMsgId ==
    \A i \in GossipSent : sent[i].body["msg_id"] = 0

(* C7 as stated: a topology whose map has no entry for the node's id       *)
(* leaves the node running.                                                *)
TopologyWithoutEntryKeepsRunning ==
    (InboundType = "topology" /\ prev.id \notin DOMAIN msg.body.topology) =>
        status = "running"

(* C8: the counter starts at 0 and counts the envelopes written: it equals *)
(* the number of lines on stdout, and the k-th line written carries        *)
(* msg_id = k.                                                             *)
CounterCountsEnvelopes ==
    /\ prev.msg_id = written
    /\ node.msg_id = written + Len(sent)
    /\ \A i \in 1..Len(sent) : sent[i].body["msg_id"] = written + i

\* A flood and its reply, written after earlier envelopes.
CounterCountsEnvelopesWitness ==
    /\ written >= 2
    /\ Len(sent) >= 3
    /\ GossipSent # {}

(* C9 as stated: once an init has set the id, no later envelope changes id *)
(* or node_ids.                                                            *)
IdentityFixedAfterInit ==
    prev.id # "" => (node.id = prev.id /\ node.node_ids = prev.node_ids)

(* C9 amended: id and node_ids are changed by init envelopes only: every   *)
(* envelope of another type leaves them unchanged, and every init, the     *)
(* first or a later one, sets them to its node_id and node_ids.            *)
IdentitySetOnlyByInit ==
    IF InboundType = "init"
    THEN node.id = msg.body.node_id /\ node.node_ids = msg.body.node_ids
    ELSE node.id = prev.id /\ node.node_ids = prev.node_ids

\* A second init that carries another node_id.
IdentitySetOnlyByInitWitness ==
    /\ InboundType = "init"
    /\ prev.id # ""
    /\ node.id # prev.id

(* C10: a handled init, topology, broadcast or read with msg_id = M > 0 is *)
(* answered by init_ok, topology_ok, broadcast_ok or read_ok, with         *)
(* in_reply_to = M, dest the inbound src and src the node's id as the      *)
(* handler left it.                                                        *)
ReplyShape ==
    (InboundType \in Answered /\ InboundId > 0 /\ status = "running") =>
        /\ sent # <<>>
        /\ LET r == sent[Len(sent)]
           IN  /\ r.body["type"] = ReplyTypeOf(InboundType)
               /\ r.body["in_reply_to"] = InboundId
               /\ r.dest = msg.src
               /\ r.src = node.id

\* An init_ok that already carries the id the init has just set.
ReplyShapeWitness ==
    /\ InboundType = "init" /\ InboundId > 0
    /\ prev.id # msg.body.node_id
    /\ Len(sent) = 1
    /\ sent[1].src = msg.body.node_id
    /\ sent[1].body["type"] = "init_ok"

----------------------------------------------------------------------------
(* Further vocabulary *)

LineRead == line # NoLine

KnownTypes == {"init", "broadcast", "read", "topology", "broadcast_ok"}

\* The line is a well-formed envelope whose body has a type but no msg_id.
LacksMsgId ==
    /\ LineRead
    /\ {"src", "dest", "body"} \subseteq DOMAIN line
    /\ "type" \in DOMAIN line["body"]
    /\ "msg_id" \notin DOMAIN line["body"]

\* The latest iteration handled the first broadcast of its value.
FirstBroadcast == InboundType = "broadcast" /\ msg.body.message \notin carriedBefore

\* The neighbors the flood of the latest iteration had to reach.
FloodTargets == Range(prev.neighbors) \ {prev.id, msg.src}

GossipTo(n) == { i \in GossipSent : sent[i].dest = n }

(* C11: a line that cannot be decoded ends the loop: the process exits,    *)
(* nothing is written for that line, the node state is left as it was and  *)
(* no further line is ever handled.                                        *)
DecodeErrorIsFatal ==
    (LineRead /\ ~Decodes(line)) =>
        /\ status = "exited"
        /\ sent = <<>>
        /\ node = prev
        /\ ~ENABLED Next

\* A bad line read by a node that had been answering requests.
DecodeErrorIsFatalWitness ==
    /\ LineRead /\ ~Decodes(line)
    /\ status = "exited"
    /\ node.id # ""
    /\ written > 0

(* C12: an envelope of unrecognized type, with any msg_id, writes nothing  *)
(* and leaves id, node_ids, neighbors, messages and the counter unchanged; *)
(* the node keeps running.                                                 *)
UnknownTypeIsDiscarded ==
    (Handled /\ InboundType \notin KnownTypes) =>
        /\ sent = <<>>
        /\ node = prev
        /\ status = "running"

\* An unknown request with msg_id > 0 read by a node that holds state.
UnknownTypeIsDiscardedWitness ==
    /\ Handled /\ InboundType \notin KnownTypes
    /\ InboundId > 0
    /\ node.neighbors # <<>>
    /\ node.messages # {}
    /\ node.msg_id > 0

(* C13 as stated: the first broadcast of a value causes exactly one gossip *)
(* envelope to each neighbor other than the node and the inbound src, and  *)
(* none to anybody else; each has type broadcast, the node's id as src and *)
(* the inbound value.                                                      *)
FloodFanOut ==
    FirstBroadcast =>
        /\ \A n \in FloodTargets : Cardinality(GossipTo(n)) = 1
        /\ \A i \in GossipSent :
              /\ sent[i].dest \in FloodTargets
              /\ sent[i].src = node.id
              /\ ValueOf(sent[i]) = msg.body.message

(* C14 as stated: every gossip envelope carries a msg_id taken fresh from  *)
(* the counter and in_reply_to = 0, whatever the inbound broadcast holds.  *)
GossipIsNewRequest ==
    \A i \in GossipSent :
        /\ sent[i].body["msg_id"] = written + i
        /\ sent[i].body["in_reply_to"] = 0

(* C15: neighbors are empty until a topology is processed; a topology the  *)
(* node survives sets them to the map's entry for the node's id, replacing *)
(* what was there, and nothing else changes them; a flood goes to the      *)
(* neighbors in force when the value is first handled, so a value first    *)
(* handled with no neighbors is never gossiped.                            *)
NeighborsLastWriteWins ==
    /\ (~LineRead) => node.neighbors = <<>>
    /\ IF InboundType = "topology" /\ status = "running"
       THEN node.neighbors = msg.body.topology[node.id]
       ELSE node.neighbors = prev.neighbors
    /\ \A i \in GossipSent :
          /\ sent[i].dest \in Range(prev.neighbors)
          /\ FirstBroadcast
    /\ (InboundType = "broadcast" /\ prev.neighbors = <<>>) => GossipSent = {}

\* A second topology that replaced a longer neighbor list by a shorter one.
NeighborsLastWriteWinsWitness ==
    /\ InboundType = "topology" /\ status = "running"
    /\ Len(prev.neighbors) > Len(node.neighbors)
    /\ node.neighbors # <<>>

(* C17: an inbound broadcast_ok, with any msg_id and in_reply_to, writes   *)
(* nothing and leaves the whole node state unchanged.                      *)
BroadcastOkIsNoOp ==
    InboundType = "broadcast_ok" =>
        /\ sent = <<>>
        /\ node = prev
        /\ status = "running"

\* An acknowledgment that carries msg_id > 0, read by a node that has sent.
BroadcastOkIsNoOpWitness ==
    /\ InboundType = "broadcast_ok"
    /\ InboundId > 0
    /\ msg.body.in_reply_to > 0
    /\ node.msg_id > 0

(* C18 as stated: a line whose body has no msg_id is decoded and handled   *)
(* like one with msg_id = 0: the node keeps running, the handler runs (a   *)
(* broadcast stores its value) and no reply is written.                    *)
AbsentMsgIdMeansZero ==
    LacksMsgId =>
        /\ status = "running"
        /\ Handled
        /\ InboundId = 0
        /\ (InboundType = "broadcast" => msg.body.message \in node.messages)

(* C19: when a broadcast with msg_id > 0 carries a new value, its gossip   *)
(* envelopes are written before its broadcast_ok, whose msg_id is greater  *)
(* than theirs; and whatever one line caused is written before the next    *)
(* line is handled: it carries the msg_ids right after those written       *)
(* before it.                                                              *)
GossipBeforeReply ==
    /\ (FirstBroadcast /\ InboundId > 0) =>
          /\ sent # <<>>
          /\ sent[Len(sent)].body["type"] = "broadcast_ok"
          /\ \A i \in GossipSent :
                /\ i < Len(sent)
                /\ sent[i].body["msg_id"] < sent[Len(sent)].body["msg_id"]
    /\ \A i \in 1..Len(sent) :
          /\ sent[i].body["msg_id"] > written
          /\ sent[i].body["msg_id"] <= node.msg_id

\* A flood to two neighbors followed by the reply.
GossipBeforeReplyWitness ==
    /\ FirstBroadcast /\ InboundId > 0
    /\ Cardinality(GossipSent) = 2
    /\ Len(sent) = 3
    /\ written > 0

----------------------------------------------------------------------------
(* Properties of the cluster *)

(* C16 as stated: no process sends two gossip envelopes that carry the     *)
(* same value to the same neighbor.                                        *)
OncePerEdge == twice = {}

(* C20: with every process set up before the first broadcast, a connected  *)
(* topology and a network that delivers every envelope, a value a client   *)
(* has broadcast is in the end held by every process.                      *)
Dissemination ==
    \A v \in Values :
        (v \in requested) ~> (\A p \in Procs : v \in cnodes[p].messages)

\* A broadcast value held by all three processes of a line topology, in
\* which the last process got it by relay, with nothing left in flight.
DisseminationWitness ==
    /\ requested # {}
    /\ topo["n3"] = <<"n2">>
    /\ \A p \in Procs : cnodes[p].messages = requested
    /\ \E v \in requested : {<<"n1", "n2", v>>, <<"n2", "n3", v>>} \subseteq flooded
    /\ net = {}
    /\ \A p \in Procs : cstatus[p] = "running"

====
